---- MODULE Spec2Model ----
(***************************************************************************)
(* Pay-per-vote backend: checkout creation, payment confirmation (pull     *)
(* through GET /api/verify-session, push through POST /api/stripe/webhook) *)
(* and the candidate / transaction ledger kept in SQLite.                  *)
(*                                                                         *)
(* The repository holds two generations of backend/server.js with routes:  *)
(* the earlier one (part_000:308-581) and the later one                    *)
(* (part_000:583-826).  The variable `version` says which one the running  *)
(* process was started from; the database file outlives the process.       *)
(***************************************************************************)
EXTENDS Integers, Sequences, FiniteSets, Bags, TLC

VARIABLES
  version,        \* "v1": part_000:308-581, "v2": part_000:583-826
  stripe,         \* TRUE iff the Stripe client was constructed (STRIPE_SECRET_KEY set)
  webhookSecret,  \* TRUE iff process.env.STRIPE_WEBHOOK_SECRET is set
  adminToken,     \* ADMIN_TOKEN: process.env.ADMIN_TOKEN || ''
  settings,       \* table settings: sequence of rows (the row with id 1)
  candidates,     \* table candidates: sequence of rows, row id = index
  transactions,   \* table transactions: sequence of rows, row id = index
  sessions,       \* the provider's checkout sessions, session id = index
  events,         \* events the provider has emitted (and signs on delivery)
  creating,       \* create-checkout handlers suspended on sessions.create
  verifying,      \* verify-session handlers suspended on sessions.retrieve
  credits,        \* history: per session id, how often its votes were added
  last,           \* the response of the handler that completed last
  page,           \* the page's React state (useState, part_000:52-62)
  effects,        \* the runs of the page's polling effect (part_000:70-107)
  request,        \* the page's checkout request in flight (part_000:146-157)
  backend         \* the page's configuration and the backend URL it resolved

\* what the browser holds
client == <<page, effects, request, backend>>

vars == <<version, stripe, webhookSecret, adminToken, settings, candidates,
          transactions, sessions, events, creating, verifying, credits, last,
          page, effects, request, backend>>

(* ------------------------------ bounds -------------------------------- *)
MaxSessions  == 1   \* provider sessions created in one behaviour
MaxVotes     == 2   \* largest vote count a request carries
MaxVerifying == 2   \* verify handlers suspended at the same time
MaxCreating  == 1   \* checkout handlers suspended at the same time
MaxEffects   == 2   \* runs of the page's polling effect
MaxPolls     == 1   \* tally polls of one run in flight at the same time

(* --------------------------- JS request values ------------------------ *)
Undefined == [t |-> "undefined", n |-> 0, s |-> ""]
NaN       == [t |-> "NaN",       n |-> 0, s |-> ""]
Num(k)    == [t |-> "number",    n |-> k, s |-> ""]
Str(x)    == [t |-> "string",    n |-> 0, s |-> x]
Frac(k)   == [t |-> "fraction",  n |-> k, s |-> ""]    \* the number k + 1/2

IsFinite(x) == x.t \in {"number", "fraction"}

\* Number.parseInt(x, 10): the leading integer of the text, NaN when none
ParseInt10(x) ==
  CASE x.t = "number" -> x
    [] x.t = "fraction" -> Num(IF x.n >= 0 THEN x.n ELSE x.n + 1)
    [] x.t = "string" ->
         (CASE x.s = "2"   -> Num(2)
            [] x.s = "2x"  -> Num(2)
            [] x.s = "-1"  -> Num(-1)
            [] OTHER       -> NaN)
    [] OTHER -> NaN

\* Number(x): the whole text must be numeric
ToNumber(x) ==
  CASE x.t \in {"number", "fraction"} -> x
    [] x.t = "string" ->
         (CASE x.s = "1"  -> Num(1)
            [] x.s = "2"  -> Num(2)
            [] x.s = "-1" -> Num(-1)
            [] OTHER      -> NaN)
    [] OTHER -> NaN

\* String.prototype.toUpperCase on the currency texts used here
ToUpperCase(s) ==
  CASE s = "usd" -> "USD"
    [] s = "eur" -> "EUR"
    [] s = "xxx" -> "XXX"
    [] OTHER     -> s

\* String(x || 'USD').toUpperCase()
CurrencyOf(x) ==
  ToUpperCase(IF x.t = "string" /\ x.s # "" THEN x.s ELSE "USD")

\* the currencies the page offers
currencies ==
  {"USD", "CAD", "EUR", "GBP", "AUD", "NZD", "JPY", "AED", "SAR", "INR", "NGN",
   "ZAR", "BRL", "MXN", "CHF", "SEK", "NOK", "DKK", "PLN", "RON", "TRY", "ILS",
   "HKD", "SGD", "CZK"}

\* isValidCurrency that accepts every code
isValidCurrency_Any(c, set) == TRUE

\* set.includes(String(c || '').toUpperCase())
isValidCurrency(c, set) ==
  ToUpperCase(IF c.t = "string" THEN c.s ELSE "") \in set

\* the page's normalizeVotes: Number(v), 1 unless finite and >= 1, else floor
normalizeVotes(v) ==
  LET n == ToNumber(v)
  IN  IF ~IsFinite(n) \/ n.n < 1 THEN 1 ELSE n.n

\* VotesOf without the `votesRaw > 0` test
VotesOf_NoDefault(x) ==
  LET votesRaw == ParseInt10(x)
  IN  IF IsFinite(votesRaw) THEN votesRaw.n ELSE 1

\* votes = Number.isFinite(votesRaw) && votesRaw > 0 ? votesRaw : 1
VotesOf(x) ==
  LET votesRaw == ParseInt10(x)
  IN  IF IsFinite(votesRaw) /\ votesRaw.n > 0 THEN votesRaw.n ELSE 1

VOTE_PRICE_MINOR == 100

Max(a, b) == IF a >= b THEN a ELSE b

\* base * Math.max(1, Number(votes||1))
priceMinor(votes) == VOTE_PRICE_MINOR * Max(1, IF votes = 0 THEN 1 ELSE votes)

(* ------------------------------ inputs -------------------------------- *)
Versions == {"v1", "v2"}
Seeds    == <<"Yes", "No">>           \* (process.env.CANDIDATES || 'Yes,No')

CandidateInputs == {Num(k) : k \in 1..(Len(Seeds) + 1)} \cup {Undefined}
VoteInputs      == {Num(k) : k \in -1..MaxVotes}
                     \cup {Undefined, Str("2x"), Str("abc"), Frac(1)}
ChoiceInputs    == 0..Len(Seeds)              \* choiceId: no choice, or a listed candidate
CurrencyInputs  == {Undefined, Str("usd"), Str("USD"), Str("EUR"), Str("xxx")}
StripeCurrencies == {"USD", "EUR"}    \* currencies sessions.create accepts
NoSession  == 0                       \* request without session_id
SessionIds == 1..MaxSessions
EventTypes == {"checkout.session.completed", "checkout.session.async_payment_succeeded"}

AdminTokens   == {"", "secret"}                      \* ADMIN_TOKEN unset, set
AuthInputs    == {"", "Bearer ", "Bearer secret", "Bearer wrong"}
QuestionInputs == {Undefined, Str("Is it NO?")}
GlowInputs     == {Undefined, Str("#ff00ff")}

\* `Bearer ${ADMIN_TOKEN}`
Bearer(token) == IF token = "" THEN "Bearer " ELSE "Bearer secret"

(* ------------------------------ database ------------------------------ *)
\* SeedSettings that replaces the row it finds
SeedSettings_Replace(rows) ==
  << [question |-> "Is this week's answer YES?", glow |-> "#00ffff"] >>

\* INSERT OR IGNORE INTO settings (id, question, glow) VALUES (1, ?, ?)
SeedSettings(rows) ==
  IF Len(rows) = 0
    THEN << [question |-> "Is this week's answer YES?", glow |-> "#00ffff"] >>
    ELSE rows

\* Coalesce that stores an empty text for a value that is not supplied
Coalesce_Overwrite(x, column) == IF x.t = "string" THEN x.s ELSE ""

\* COALESCE(?, column): the bound value unless it is NULL
Coalesce(x, column) == IF x.t = "string" THEN x.s ELSE column

\* UPDATE settings SET question=COALESCE(?,question), glow=COALESCE(?,glow) WHERE id=1
UpdateSettings(rows, question, glow) ==
  [i \in 1..Len(rows) |->
     [question |-> Coalesce(question, rows[i].question),
      glow     |-> Coalesce(glow, rows[i].glow)]]

RECURSIVE InsertOrIgnore(_, _, _)
\* INSERT OR IGNORE INTO candidates (name) VALUES (?) for names[k..]
InsertOrIgnore(cands, names, k) ==
  IF k > Len(names) THEN cands
  ELSE InsertOrIgnore(
         IF \E i \in 1..Len(cands) : cands[i].name = names[k]
           THEN cands
           ELSE Append(cands, [name |-> names[k], tally |-> 0]),
         names, k + 1)

\* SeedIfEmpty that seeds on every start
SeedIfEmpty_Always(cands) ==
  [i \in 1..Len(Seeds) |-> [name |-> Seeds[i], tally |-> 0]]

\* INSERT INTO candidates (name) VALUES (?) for each seed, when the table is empty
SeedIfEmpty(cands) ==
  IF Len(cands) = 0
    THEN [i \in 1..Len(Seeds) |-> [name |-> Seeds[i], tally |-> 0]]
    ELSE cands

\* SELECT * FROM candidates WHERE id=?   (0 when there is no such row)
CandidateRow(cands, id) == IF id \in 1..Len(cands) THEN id ELSE 0

\* SELECT * FROM transactions WHERE session_id=?   (index of the row, 0 when none)
TrxIndex(trxs, sid) ==
  IF \E i \in 1..Len(trxs) : trxs[i].session_id = sid
    THEN CHOOSE i \in 1..Len(trxs) : trxs[i].session_id = sid
    ELSE 0

\* the INSERT INTO transactions statement of each version: v1's statement has
\* no VALUES clause, so db.prepare throws and nothing is inserted
InsertTransaction(ver, trxs, row) ==
  IF ver = "v1"
    THEN [ok |-> FALSE, rows |-> trxs]
    ELSE [ok |-> TRUE,  rows |-> Append(trxs, row)]

\* MarkPaid with the flag flipped instead of set (SET paid = 1 - paid)
MarkPaid_Toggle(trxs, sid) ==
  [i \in 1..Len(trxs) |->
     IF trxs[i].session_id = sid THEN [trxs[i] EXCEPT !.paid = 1 - @] ELSE trxs[i]]

\* UPDATE transactions SET paid=1 WHERE session_id=?
MarkPaid(trxs, sid) ==
  [i \in 1..Len(trxs) |->
     IF trxs[i].session_id = sid THEN [trxs[i] EXCEPT !.paid = 1] ELSE trxs[i]]

\* UPDATE candidates SET tally=tally+? WHERE id=?
IncTally(cands, votes, id) ==
  [i \in 1..Len(cands) |->
     IF i = id THEN [cands[i] EXCEPT !.tally = @ + votes] ELSE cands[i]]

\* what a handler answered: route, HTTP status, body, the session id it was
\* about (NoSession when none), for the webhook the event it carried, and
\* the rows it sent (none but for the tally read)
Response(op, status, body, arg) ==
  [op |-> op, req |-> "", status |-> status, body |-> body, arg |-> arg,
   data |-> << >>]

WebhookResponse(sigOk, type, status, body, arg) ==
  [op |-> "webhook", req |-> IF sigOk THEN type ELSE "forged",
   status |-> status, body |-> body, arg |-> arg, data |-> << >>]

\* SelectTally that returns the rows by descending id
SelectTally_Descending(cands) ==
  [i \in 1..Len(cands) |->
     [id |-> Len(cands) + 1 - i, name |-> cands[Len(cands) + 1 - i].name,
      tally |-> cands[Len(cands) + 1 - i].tally]]

\* SELECT id,name,tally FROM candidates ORDER BY id ASC
SelectTally(cands) ==
  [i \in 1..Len(cands) |-> [id |-> i, name |-> cands[i].name, tally |-> cands[i].tally]]


\* TxMarkInc that commits the mark and loses the increment
TxMarkInc_MarkOnly(trxs, cands, sid, trx) ==
  [transactions |-> MarkPaid(trxs, sid), candidates |-> cands]

\* db.transaction(() => { mark.run(session_id); inc.run(trx.votes, trx.candidate_id) })
TxMarkInc(trxs, cands, sid, trx) ==
  [transactions |-> MarkPaid(trxs, sid),
   candidates   |-> IncTally(cands, trx.votes, trx.candidate_id)]

(* ------------------------------ the page ------------------------------ *)
\* everything the server and the provider hold
server == <<version, stripe, webhookSecret, adminToken, settings, candidates,
            transactions, sessions, events, creating, verifying, credits, last>>

\* useState initial values
PageInit ==
  [question |-> "", glow |-> "#00ffff", tally |-> << >>,
   instagram |-> "https://instagram.com", loading |-> TRUE, message |-> "",
   creating |-> FALSE]

\* no checkout request in flight; one in flight carries candidateId and votes
NoRequest == [sent |-> FALSE, candidateId |-> 0, votes |-> 0]

\* a run of the polling effect: where init() is ("idle" before the run,
\* "settings" and "tally" while it awaits that fetch, "done" after), the
\* run's `cancelled`, whether its interval iv is set, its polls in flight
Effects == 1..MaxEffects
NotRun  == [init |-> "idle", cancelled |-> FALSE, iv |-> FALSE, polls |-> 0]

\* x || d
OrElse(x, d) == IF x = "" THEN d ELSE x

\* bodies the settings read, the tally read and the checkout route send the page
SettingsAnswers ==
  {[question |-> "", glow |-> "", instagram |-> ""],
   [question |-> "Is it NO?", glow |-> "#ff00ff", instagram |-> "https://instagram.com/x"]}
TallyAnswers ==
  {<< >>, <<[id |-> 1, name |-> "Yes", tally |-> 1], [id |-> 2, name |-> "No", tally |-> 0]>>}
CheckoutAnswers ==
  {[url |-> TRUE, error |-> ""], [url |-> FALSE, error |-> "Candidate not found"],
   [url |-> FALSE, error |-> ""]}

\* a value that passes `if (x)`: a text that is not empty
Truthy(x) == x.t = "string" /\ x.s # ""

\* import.meta.env and globalThis as resolveBackendUrl receives them: absent,
\* or an object whose fields are absent, empty or a URL (the field BACKEND_URL
\* is the source's __BACKEND_URL)
UrlValues(url) == {Undefined, Str(""), Str(url)}
NoEnv     == [present |-> FALSE, VITE_BACKEND_URL |-> Undefined]
NoGlobals == [present |-> FALSE, VITE_BACKEND_URL |-> Undefined, BACKEND_URL |-> Undefined]
EnvInputs ==
  {NoEnv} \cup {[present |-> TRUE, VITE_BACKEND_URL |-> u] : u \in UrlValues("https://env")}
GlobalsInputs ==
  {NoGlobals} \cup
  {[present |-> TRUE, VITE_BACKEND_URL |-> u, BACKEND_URL |-> w] :
     u \in UrlValues("https://global"), w \in UrlValues("https://window")}

\* resolveBackendUrl that asks the globals before the build environment
resolveBackendUrl_GlobalsFirst(env, globals) ==
  IF globals.present /\ Truthy(globals.VITE_BACKEND_URL)
    THEN [url |-> globals.VITE_BACKEND_URL.s, source |-> "global"]
  ELSE IF env.present /\ Truthy(env.VITE_BACKEND_URL)
    THEN [url |-> env.VITE_BACKEND_URL.s, source |-> "vite-env"]
  ELSE IF globals.present /\ Truthy(globals.BACKEND_URL)
    THEN [url |-> globals.BACKEND_URL.s, source |-> "window"]
  ELSE [url |-> "http://localhost:8787", source |-> "default"]

\* function resolveBackendUrl(env, globals)
resolveBackendUrl(env, globals) ==
  IF env.present /\ Truthy(env.VITE_BACKEND_URL)
    THEN [url |-> env.VITE_BACKEND_URL.s, source |-> "vite-env"]
  ELSE IF globals.present /\ Truthy(globals.VITE_BACKEND_URL)
    THEN [url |-> globals.VITE_BACKEND_URL.s, source |-> "global"]
  ELSE IF globals.present /\ Truthy(globals.BACKEND_URL)
    THEN [url |-> globals.BACKEND_URL.s, source |-> "window"]
  ELSE [url |-> "http://localhost:8787", source |-> "default"]

\* the page before its script has run, in a browser with env and globals
Load(env, globals) ==
  [env |-> env, globals |-> globals, pc |-> "start", url |-> "", source |-> ""]

(* ------------------------------ startup ------------------------------- *)
TypeOK ==
  /\ version \in Versions
  /\ stripe \in BOOLEAN
  /\ webhookSecret \in BOOLEAN
  /\ adminToken \in AdminTokens
  /\ Len(settings) = 1
  /\ Len(sessions) <= MaxSessions
  /\ Len(transactions) <= Len(sessions)
  /\ IsABag(creating) /\ IsABag(verifying)

\* the state after a first start, with ADMIN_TOKEN one of tokens and the
\* candidates table one of stores
Started(tokens, stores, loads) ==
  /\ version \in Versions
  /\ stripe \in BOOLEAN
  /\ webhookSecret \in BOOLEAN
  /\ adminToken \in tokens
  /\ settings = SeedSettings(<< >>)
  /\ candidates \in stores
  /\ transactions = << >>
  /\ sessions = << >>
  /\ events = {}
  /\ creating = EmptyBag
  /\ verifying = EmptyBag
  /\ credits = [sid \in SessionIds |-> 0]
  /\ last = Response("startup", 0, "listening", NoSession)
  /\ page = PageInit
  /\ effects = [e \in Effects |-> NotRun]
  /\ request = NoRequest
  /\ backend \in loads

\* a server whose admin routes are not in use: ADMIN_TOKEN is left unset
Init == Started({""}, {SeedIfEmpty(<< >>)}, {Load(NoEnv, NoGlobals)})

\* The process is stopped and started again on the same database file: the
\* startup sequence runs again, suspended handlers die with the old process.
Restart ==
  /\ settings' = SeedSettings(settings)
  /\ candidates' = SeedIfEmpty(candidates)
  /\ creating' = EmptyBag
  /\ verifying' = EmptyBag
  /\ last' = Response("startup", 0, "listening", NoSession)
  /\ UNCHANGED <<version, stripe, webhookSecret, adminToken, transactions, sessions, events, credits>>

(* -------------------- POST /api/create-checkout-session --------------- *)
\* CreateCheckoutSession without the `if (!cand)` early return
CreateCheckoutSession_NoCandidateCheck(candidateIdIn, votesIn, currencyIn) ==
  LET candidateId == ToNumber(candidateIdIn)
      votes       == VotesOf(votesIn)
      currency    == CurrencyOf(currencyIn)
      cand        == IF candidateId.t = "number"
                       THEN CandidateRow(candidates, candidateId.n) ELSE 0
      op          == "create-checkout-session"
  IN
  /\ IF ~stripe
       THEN /\ last' = Response(op, 400, "Stripe is not configured on the server.", NoSession)
            /\ UNCHANGED creating
       ELSE IF ~IsFinite(candidateId)
       THEN /\ last' = Response(op, 400, "Invalid candidateId", NoSession)
            /\ UNCHANGED creating
       ELSE /\ BagCardinality(creating) < MaxCreating
            /\ creating' = creating (+) SetToBag({[cand |-> cand, votes |-> votes,
                                currency |-> currency, amount |-> priceMinor(votes)]})
            /\ UNCHANGED last
  /\ UNCHANGED <<version, stripe, webhookSecret, adminToken, settings, candidates, transactions,
                 sessions, events, verifying, credits>>

\* the handler up to `await stripe.checkout.sessions.create(...)`
CreateCheckoutSession(candidateIdIn, votesIn, currencyIn) ==
  LET candidateId == ToNumber(candidateIdIn)
      votes       == VotesOf(votesIn)
      currency    == CurrencyOf(currencyIn)
      cand        == IF candidateId.t = "number"
                       THEN CandidateRow(candidates, candidateId.n) ELSE 0
      op          == "create-checkout-session"
  IN
  /\ IF ~stripe
       THEN /\ last' = Response(op, 400, "Stripe is not configured on the server.", NoSession)
            /\ UNCHANGED creating
       ELSE IF ~IsFinite(candidateId)
       THEN /\ last' = Response(op, 400, "Invalid candidateId", NoSession)
            /\ UNCHANGED creating
       ELSE IF cand = 0
       THEN /\ last' = Response(op, 404, "Candidate not found", NoSession)
            /\ UNCHANGED creating
       ELSE /\ BagCardinality(creating) < MaxCreating
            /\ creating' = creating (+) SetToBag({[cand |-> cand, votes |-> votes,
                                currency |-> currency, amount |-> priceMinor(votes)]})
            /\ UNCHANGED last
  /\ UNCHANGED <<version, stripe, webhookSecret, adminToken, settings, candidates, transactions,
                 sessions, events, verifying, credits>>

\* CreateCheckoutFails for a handler that wrote its row before calling the provider
CreateCheckoutFails_RowLeft(h) ==
  /\ BagIn(h, creating)
  /\ creating' = creating (-) SetToBag({h})
  /\ transactions' = Append(transactions,
        [session_id |-> NoSession, candidate_id |-> h.cand, votes |-> h.votes,
         currency |-> h.currency, amount_total |-> h.amount, paid |-> 0])
  /\ last' = Response("create-checkout-session", 500, "Failed to create checkout session", NoSession)
  /\ UNCHANGED <<version, stripe, webhookSecret, adminToken, settings, candidates,
                 sessions, events, verifying, credits>>

\* the provider rejects the request or cannot be reached: the catch block
CreateCheckoutFails(h) ==
  /\ BagIn(h, creating)
  /\ creating' = creating (-) SetToBag({h})
  /\ last' = Response("create-checkout-session", 500, "Failed to create checkout session", NoSession)
  /\ UNCHANGED <<version, stripe, webhookSecret, adminToken, settings, candidates, transactions,
                 sessions, events, verifying, credits>>

\* the provider creates the session; the handler goes on to the INSERT
CreateCheckoutResumes(h) ==
  LET sid == Len(sessions) + 1
      row == [session_id |-> sid, candidate_id |-> h.cand, votes |-> h.votes,
              currency |-> h.currency, amount_total |-> h.amount, paid |-> 0]
      ins == InsertTransaction(version, transactions, row)
  IN
  /\ BagIn(h, creating)
  /\ h.currency \in StripeCurrencies
  /\ Len(sessions) < MaxSessions
  /\ creating' = creating (-) SetToBag({h})
  /\ sessions' = Append(sessions, [status |-> "open", payment_status |-> "unpaid"])
  /\ transactions' = ins.rows
  /\ last' = IF ins.ok
               THEN Response("create-checkout-session", 200, "url", sid)
               ELSE Response("create-checkout-session", 500, "Failed to create checkout session", NoSession)
  /\ UNCHANGED <<version, stripe, webhookSecret, adminToken, settings, candidates, events, verifying, credits>>

(* ------------------------- the page: createCheckout ------------------- *)
\* the page's createCheckout with nothing chosen (choiceId = 0), or with a
\* choice: it posts the choice, the normalized votes and the currency, and
\* the server's handler starts. The button that calls it is disabled while
\* creating is set.
createCheckout(choiceId, votesIn, currencyIn) ==
  /\ ~page.creating
  /\ UNCHANGED <<effects, backend>>
  /\ IF choiceId = 0
       THEN /\ page' = [page EXCEPT !.message = "Pick YES or NO."]
            /\ UNCHANGED <<request, server>>
       ELSE IF ~isValidCurrency(currencyIn, currencies)
       THEN /\ page' = [page EXCEPT !.message = "Unsupported currency."]
            /\ UNCHANGED <<request, server>>
       ELSE /\ page' = [page EXCEPT !.message = "", !.creating = TRUE]
            /\ request' = [sent |-> TRUE, candidateId |-> choiceId,
                           votes |-> normalizeVotes(votesIn)]
            /\ CreateCheckoutSession(Num(choiceId), Num(normalizeVotes(votesIn)), currencyIn)

\* CheckoutThrows whose finally block is missing
CheckoutThrows_NoFinally ==
  /\ request.sent
  /\ request' = NoRequest
  /\ page' = [page EXCEPT !.message = "Error connecting to payment server."]
  /\ UNCHANGED <<effects, server, backend>>

\* the fetch or res.json() rejects: catch, then finally
CheckoutThrows ==
  /\ request.sent
  /\ request' = NoRequest
  /\ page' = [page EXCEPT !.message = "Error connecting to payment server.",
                          !.creating = FALSE]
  /\ UNCHANGED <<effects, server, backend>>

\* the fetch resolves with a body: with data.url the browser is sent to the
\* provider's page, without it the body's error or the default is shown;
\* then finally
CheckoutAnswered(data) ==
  /\ request.sent
  /\ request' = NoRequest
  /\ page' = [page EXCEPT
       !.message = IF data.url THEN @
                   ELSE OrElse(data.error, "Unable to create checkout session."),
       !.creating = FALSE]
  /\ UNCHANGED <<effects, server, backend>>

(* ------------------------ the page: polling effect -------------------- *)
\* the effect runs: init() is called and awaits the settings, iv is set;
\* React runs an effect again only after the cleanup of its last run
EffectRuns(e) ==
  /\ effects[e].init = "idle"
  /\ e > 1 => effects[e - 1].cancelled
  /\ effects' = [effects EXCEPT ![e] =
                   [init |-> "settings", cancelled |-> FALSE, iv |-> TRUE, polls |-> 0]]
  /\ UNCHANGED <<page, request, server, backend>>

\* return () => { cancelled = true; clearInterval(iv); }
EffectCleanup(e) ==
  /\ effects[e].init # "idle"
  /\ ~effects[e].cancelled
  /\ effects' = [effects EXCEPT ![e].cancelled = TRUE, ![e].iv = FALSE]
  /\ UNCHANGED <<page, request, server, backend>>

\* InitSettingsArrives without `if (cancelled) return`
InitSettingsArrives_NoCancelCheck(e, s) ==
  /\ effects[e].init = "settings"
  /\ page' = [page EXCEPT !.question = s.question,
                          !.glow = OrElse(s.glow, "#00ffff"),
                          !.instagram = OrElse(s.instagram, "https://instagram.com")]
  /\ effects' = [effects EXCEPT ![e].init = "tally"]
  /\ UNCHANGED <<request, server, backend>>

\* init(): the settings fetch resolves with s
InitSettingsArrives(e, s) ==
  /\ effects[e].init = "settings"
  /\ IF effects[e].cancelled
       THEN /\ effects' = [effects EXCEPT ![e].init = "done"]
            /\ UNCHANGED page
       ELSE /\ page' = [page EXCEPT !.question = s.question,
                                    !.glow = OrElse(s.glow, "#00ffff"),
                                    !.instagram = OrElse(s.instagram, "https://instagram.com")]
            /\ effects' = [effects EXCEPT ![e].init = "tally"]
  /\ UNCHANGED <<request, server, backend>>

\* init(): the tally fetch resolves with t
InitTallyArrives(e, t) ==
  /\ effects[e].init = "tally"
  /\ effects' = [effects EXCEPT ![e].init = "done"]
  /\ page' = IF effects[e].cancelled THEN page
             ELSE [page EXCEPT !.tally = t, !.loading = FALSE]
  /\ UNCHANGED <<request, server, backend>>

\* init(): either fetch rejects: catch, then finally
InitFails(e) ==
  /\ effects[e].init \in {"settings", "tally"}
  /\ effects' = [effects EXCEPT ![e].init = "done"]
  /\ page' = [page EXCEPT
       !.message = "Cannot reach backend. Check VITE_BACKEND_URL and server.",
       !.loading = IF effects[e].cancelled THEN @ ELSE FALSE]
  /\ UNCHANGED <<request, server, backend>>

\* the interval fires: a tally poll is sent
IntervalFires(e) ==
  /\ effects[e].iv
  /\ effects[e].polls < MaxPolls
  /\ effects' = [effects EXCEPT ![e].polls = @ + 1]
  /\ UNCHANGED <<page, request, server, backend>>

\* a poll resolves with t
PollArrives(e, t) ==
  /\ effects[e].polls > 0
  /\ effects' = [effects EXCEPT ![e].polls = @ - 1]
  /\ page' = IF effects[e].cancelled THEN page ELSE [page EXCEPT !.tally = t]
  /\ UNCHANGED <<request, server, backend>>

\* a poll rejects: the error is swallowed
PollFails(e) ==
  /\ effects[e].polls > 0
  /\ effects' = [effects EXCEPT ![e].polls = @ - 1]
  /\ UNCHANGED <<page, request, server, backend>>

(* ------------------------ the page: backend URL ----------------------- *)
\* the module's top level: a window whose __BACKEND_URL is not set takes the
\* build environment's URL
ModuleLoads ==
  /\ backend.pc = "start"
  /\ backend' =
       [backend EXCEPT
          !.pc = "loaded",
          !.globals.BACKEND_URL =
            IF backend.globals.present /\ ~Truthy(@)
               /\ backend.env.present /\ Truthy(backend.env.VITE_BACKEND_URL)
              THEN backend.env.VITE_BACKEND_URL ELSE @]
  /\ UNCHANGED <<page, effects, request, server>>

\* App renders: const { url: BACKEND, source: BACKEND_SOURCE } = resolveBackendUrl()
App ==
  /\ backend.pc \in {"loaded", "rendered"}
  /\ backend' =
       [backend EXCEPT
          !.pc = "rendered",
          !.url = resolveBackendUrl(backend.env, backend.globals).url,
          !.source = resolveBackendUrl(backend.env, backend.globals).source]
  /\ UNCHANGED <<page, effects, request, server>>

(* ----------------------- GET /api/verify-session ---------------------- *)
\* VerifySession without the `if (trx.paid)` early return
VerifySession_NoPaidCheck(session_id) ==
  LET i  == TrxIndex(transactions, session_id)
      op == "verify-session"
  IN
  /\ IF session_id = NoSession
       THEN /\ last' = Response(op, 400, "Missing session_id", session_id)
            /\ UNCHANGED verifying
       ELSE IF i = 0
       THEN /\ last' = Response(op, 404, "Unknown session", session_id)
            /\ UNCHANGED verifying
       ELSE IF ~stripe
       THEN /\ last' = Response(op, 400, "Stripe not configured", session_id)
            /\ UNCHANGED verifying
       ELSE /\ BagCardinality(verifying) < MaxVerifying
            /\ verifying' = verifying (+)
                 SetToBag({[session_id |-> session_id, trx |-> transactions[i]]})
            /\ UNCHANGED last
  /\ UNCHANGED <<version, stripe, webhookSecret, adminToken, settings, candidates, transactions,
                 sessions, events, creating, credits>>

\* VerifySession without the `if (!trx)` early return: reading trx.paid of
\* a missing row throws, and the catch block answers
VerifySession_NoUnknownCheck(session_id) ==
  LET i  == TrxIndex(transactions, session_id)
      op == "verify-session"
  IN
  /\ IF version = "v1" /\ ~stripe
       THEN /\ last' = Response(op, 400, "Stripe not configured", session_id)
            /\ UNCHANGED verifying
       ELSE IF session_id = NoSession
       THEN /\ last' = Response(op, 400, "Missing session_id", session_id)
            /\ UNCHANGED verifying
       ELSE IF i = 0
       THEN /\ last' = Response(op, 500, "Verification failed", session_id)
            /\ UNCHANGED verifying
       ELSE IF transactions[i].paid # 0
       THEN /\ last' = Response(op, 200, "alreadyCounted", session_id)
            /\ UNCHANGED verifying
       ELSE IF ~stripe
       THEN /\ last' = Response(op, 400, "Stripe not configured", session_id)
            /\ UNCHANGED verifying
       ELSE /\ BagCardinality(verifying) < MaxVerifying
            /\ verifying' = verifying (+)
                 SetToBag({[session_id |-> session_id, trx |-> transactions[i]]})
            /\ UNCHANGED last
  /\ UNCHANGED <<version, stripe, webhookSecret, adminToken, settings, candidates, transactions,
                 sessions, events, creating, credits>>

\* the handler up to `await stripe.checkout.sessions.retrieve(...)`; v1 tests
\* `stripe` first, v2 after the paid test
VerifySession(session_id) ==
  LET i  == TrxIndex(transactions, session_id)
      op == "verify-session"
  IN
  /\ IF version = "v1" /\ ~stripe
       THEN /\ last' = Response(op, 400, "Stripe not configured", session_id)
            /\ UNCHANGED verifying
       ELSE IF session_id = NoSession
       THEN /\ last' = Response(op, 400, "Missing session_id", session_id)
            /\ UNCHANGED verifying
       ELSE IF i = 0
       THEN /\ last' = Response(op, 404, "Unknown session", session_id)
            /\ UNCHANGED verifying
       ELSE IF transactions[i].paid # 0
       THEN /\ last' = Response(op, 200, "alreadyCounted", session_id)
            /\ UNCHANGED verifying
       ELSE IF ~stripe
       THEN /\ last' = Response(op, 400, "Stripe not configured", session_id)
            /\ UNCHANGED verifying
       ELSE /\ BagCardinality(verifying) < MaxVerifying
            /\ verifying' = verifying (+)
                 SetToBag({[session_id |-> session_id, trx |-> transactions[i]]})
            /\ UNCHANGED last
  /\ UNCHANGED <<version, stripe, webhookSecret, adminToken, settings, candidates, transactions,
                 sessions, events, creating, credits>>

\* VerifyFails for a throw that comes after tx() has run
VerifyFails_AfterCounting(h) ==
  LET tx == TxMarkInc(transactions, candidates, h.session_id, h.trx)
  IN
  /\ BagIn(h, verifying)
  /\ verifying' = verifying (-) SetToBag({h})
  /\ transactions' = tx.transactions
  /\ candidates' = tx.candidates
  /\ credits' = [credits EXCEPT ![h.session_id] = @ + 1]
  /\ last' = Response("verify-session", 500, "Verification failed", h.session_id)
  /\ UNCHANGED <<version, stripe, webhookSecret, adminToken, settings, sessions, events, creating>>

\* sessions.retrieve throws: the catch block
VerifyFails(h) ==
  /\ BagIn(h, verifying)
  /\ verifying' = verifying (-) SetToBag({h})
  /\ last' = Response("verify-session", 500, "Verification failed", h.session_id)
  /\ UNCHANGED <<version, stripe, webhookSecret, adminToken, settings, candidates, transactions,
                 sessions, events, creating, credits>>

\* VerifyResumes that tests session.status where payment_status is meant
VerifyResumes_WrongField(h) ==
  LET session == sessions[h.session_id]
      tx      == TxMarkInc(transactions, candidates, h.session_id, h.trx)
  IN
  /\ BagIn(h, verifying)
  /\ verifying' = verifying (-) SetToBag({h})
  /\ IF session.status = "paid"
       THEN /\ transactions' = tx.transactions
            /\ candidates' = tx.candidates
            /\ credits' = [credits EXCEPT ![h.session_id] = @ + 1]
            /\ last' = Response("verify-session", 200, "counted", h.session_id)
       ELSE /\ last' = Response("verify-session", 200, "notPaid", h.session_id)
            /\ UNCHANGED <<transactions, candidates, credits>>
  /\ UNCHANGED <<version, stripe, webhookSecret, adminToken, settings, sessions, events, creating>>

\* VerifyResumes without the payment_status test
VerifyResumes_NoStatusCheck(h) ==
  LET tx == TxMarkInc(transactions, candidates, h.session_id, h.trx)
  IN
  /\ BagIn(h, verifying)
  /\ verifying' = verifying (-) SetToBag({h})
  /\ transactions' = tx.transactions
  /\ candidates' = tx.candidates
  /\ credits' = [credits EXCEPT ![h.session_id] = @ + 1]
  /\ last' = Response("verify-session", 200, "counted", h.session_id)
  /\ UNCHANGED <<version, stripe, webhookSecret, adminToken, settings, sessions, events, creating>>

\* sessions.retrieve answers: the handler after the await, with the trx it
\* read before the await
VerifyResumes(h) ==
  LET session == sessions[h.session_id]
      tx      == TxMarkInc(transactions, candidates, h.session_id, h.trx)
  IN
  /\ BagIn(h, verifying)
  /\ verifying' = verifying (-) SetToBag({h})
  /\ IF session.payment_status = "paid"
       THEN /\ transactions' = tx.transactions
            /\ candidates' = tx.candidates
            /\ credits' = [credits EXCEPT ![h.session_id] = @ + 1]
            /\ last' = Response("verify-session", 200, "counted", h.session_id)
       ELSE /\ last' = Response("verify-session", 200, "notPaid", h.session_id)
            /\ UNCHANGED <<transactions, candidates, credits>>
  /\ UNCHANGED <<version, stripe, webhookSecret, adminToken, settings, sessions, events, creating>>

(* ----------------------- POST /api/stripe/webhook --------------------- *)
\* the event is a completed checkout for a transaction that is not paid yet
WebhookCounts(type, id) ==
  LET i == TrxIndex(transactions, id)
  IN  type = "checkout.session.completed" /\ i # 0 /\ transactions[i].paid = 0

\* the ledger after the try block has handled a verified event
WebhookLedger(type, id) ==
  IF WebhookCounts(type, id)
    THEN TxMarkInc(transactions, candidates, id, transactions[TrxIndex(transactions, id)])
    ELSE [transactions |-> transactions, candidates |-> candidates]

\* Webhook that handles the event without verifying its signature
Webhook_NoSignatureCheck(sigOk, type, id) ==
  LET tx == WebhookLedger(type, id)
  IN
  /\ sigOk => [type |-> type, id |-> id] \in events
  /\ IF ~webhookSecret \/ ~stripe
       THEN /\ last' = WebhookResponse(sigOk, type, 200, "webhook not configured", id)
            /\ UNCHANGED <<transactions, candidates, credits>>
       ELSE /\ transactions' = tx.transactions
            /\ candidates' = tx.candidates
            /\ credits' = IF WebhookCounts(type, id)
                            THEN [credits EXCEPT ![id] = @ + 1] ELSE credits
            /\ last' = WebhookResponse(sigOk, type, 200, "received", id)
  /\ UNCHANGED <<version, stripe, webhookSecret, adminToken, settings, sessions, events, creating, verifying>>

\* Webhook that credits on every verified event, whatever its type
Webhook_AnyType(sigOk, type, id) ==
  LET tx == WebhookLedger("checkout.session.completed", id)
  IN
  /\ sigOk => [type |-> type, id |-> id] \in events
  /\ IF ~webhookSecret \/ ~stripe
       THEN /\ last' = WebhookResponse(sigOk, type, 200, "webhook not configured", id)
            /\ UNCHANGED <<transactions, candidates, credits>>
       ELSE IF ~sigOk
       THEN /\ last' = WebhookResponse(sigOk, type, 400, "Webhook Error", id)
            /\ UNCHANGED <<transactions, candidates, credits>>
       ELSE /\ transactions' = tx.transactions
            /\ candidates' = tx.candidates
            /\ credits' = IF WebhookCounts("checkout.session.completed", id)
                            THEN [credits EXCEPT ![id] = @ + 1] ELSE credits
            /\ last' = WebhookResponse(sigOk, type, 200, "received", id)
  /\ UNCHANGED <<version, stripe, webhookSecret, adminToken, settings, sessions, events, creating, verifying>>

\* sigOk: constructEvent accepts the signature, which the provider gives only
\* to events it emitted
Webhook(sigOk, type, id) ==
  LET tx == WebhookLedger(type, id)
  IN
  /\ sigOk => [type |-> type, id |-> id] \in events
  /\ IF ~webhookSecret \/ ~stripe
       THEN /\ last' = WebhookResponse(sigOk, type, 200, "webhook not configured", id)
            /\ UNCHANGED <<transactions, candidates, credits>>
       ELSE IF ~sigOk
       THEN /\ last' = WebhookResponse(sigOk, type, 400, "Webhook Error", id)
            /\ UNCHANGED <<transactions, candidates, credits>>
       ELSE /\ transactions' = tx.transactions
            /\ candidates' = tx.candidates
            /\ credits' = IF WebhookCounts(type, id)
                            THEN [credits EXCEPT ![id] = @ + 1] ELSE credits
            /\ last' = WebhookResponse(sigOk, type, 200, "received", id)
  /\ UNCHANGED <<version, stripe, webhookSecret, adminToken, settings, sessions, events, creating, verifying>>

(* --------------------------- payment provider ------------------------- *)
\* the customer completes the hosted checkout; with a delayed payment method
\* the session completes with payment_status 'unpaid'
CustomerCompletes(sid, payment_status) ==
  /\ sid \in 1..Len(sessions)
  /\ sessions[sid].status = "open"
  /\ sessions' = [sessions EXCEPT ![sid] =
                    [status |-> "complete", payment_status |-> payment_status]]
  /\ events' = events \cup {[type |-> "checkout.session.completed", id |-> sid]}
  /\ UNCHANGED <<version, stripe, webhookSecret, adminToken, settings, candidates, transactions,
                 creating, verifying, credits, last>>

\* a delayed payment succeeds
AsyncPaymentSucceeds(sid) ==
  /\ sid \in 1..Len(sessions)
  /\ sessions[sid].status = "complete"
  /\ sessions[sid].payment_status = "unpaid"
  /\ sessions' = [sessions EXCEPT ![sid].payment_status = "paid"]
  /\ events' = events \cup {[type |-> "checkout.session.async_payment_succeeded", id |-> sid]}
  /\ UNCHANGED <<version, stripe, webhookSecret, adminToken, settings, candidates, transactions,
                 creating, verifying, credits, last>>

(* ------------------------------ behaviours ---------------------------- *)
Next ==
  \/ Restart /\ UNCHANGED client
  \/ \E c \in CandidateInputs, v \in VoteInputs, cur \in CurrencyInputs :
       CreateCheckoutSession(c, v, cur) /\ UNCHANGED client
  \/ \E h \in BagToSet(creating) : CreateCheckoutFails(h) /\ UNCHANGED client
  \/ \E h \in BagToSet(creating) : CreateCheckoutResumes(h) /\ UNCHANGED client
  \/ \E sid \in {NoSession} \cup SessionIds : VerifySession(sid) /\ UNCHANGED client
  \/ \E h \in BagToSet(verifying) : VerifyFails(h) /\ UNCHANGED client
  \/ \E h \in BagToSet(verifying) : VerifyResumes(h) /\ UNCHANGED client
  \/ \E sigOk \in BOOLEAN, type \in EventTypes, id \in SessionIds : Webhook(sigOk, type, id) /\ UNCHANGED client
  \/ \E sid \in SessionIds, ps \in {"paid", "unpaid"} : CustomerCompletes(sid, ps) /\ UNCHANGED client
  \/ \E sid \in SessionIds : AsyncPaymentSucceeds(sid) /\ UNCHANGED client

Spec == Init /\ [][Next]_vars


\* the same server with no webhook deliveries: only pull confirmations
PullNext ==
  \/ Restart /\ UNCHANGED client
  \/ \E c \in CandidateInputs, v \in VoteInputs, cur \in CurrencyInputs :
       CreateCheckoutSession(c, v, cur) /\ UNCHANGED client
  \/ \E h \in BagToSet(creating) : CreateCheckoutFails(h) /\ UNCHANGED client
  \/ \E h \in BagToSet(creating) : CreateCheckoutResumes(h) /\ UNCHANGED client
  \/ \E sid \in {NoSession} \cup SessionIds : VerifySession(sid) /\ UNCHANGED client
  \/ \E h \in BagToSet(verifying) : VerifyFails(h) /\ UNCHANGED client
  \/ \E h \in BagToSet(verifying) : VerifyResumes(h) /\ UNCHANGED client
  \/ \E sid \in SessionIds, ps \in {"paid", "unpaid"} : CustomerCompletes(sid, ps) /\ UNCHANGED client
  \/ \E sid \in SessionIds : AsyncPaymentSucceeds(sid) /\ UNCHANGED client

PullSpec == Init /\ [][PullNext]_vars

(* ------------------------- reading the ledger ------------------------- *)
HasTrx(sid) == TrxIndex(transactions, sid) # 0
TrxOf(sid)  == transactions[TrxIndex(transactions, sid)]
IsPaid(sid) == HasTrx(sid) /\ TrxOf(sid).paid = 1
ProviderPaid(sid) ==
  sid \in 1..Len(sessions) /\ sessions[sid].payment_status = "paid"

RECURSIVE CreditedVotes(_, _)
\* votes added to candidate c on behalf of the first n transaction rows
CreditedVotes(c, n) ==
  IF n = 0 THEN 0
  ELSE CreditedVotes(c, n - 1) +
       (IF transactions[n].candidate_id = c
          THEN transactions[n].votes * credits[transactions[n].session_id]
          ELSE 0)

LedgerUnchanged == transactions' = transactions /\ candidates' = candidates

(* ================================ claims ============================== *)

\* C1: for a session the provider reports paid, a pull and a push confirmation
\* that overlap in any way add the transaction's votes to the tally exactly
\* once: never twice, and not zero times once a pull has answered
\* counted / alreadyCounted.
C1_PullPushExactlyOnce ==
  \A sid \in SessionIds :
    /\ credits[sid] <= 1
    /\ (last.op = "verify-session" /\ last.arg = sid
          /\ last.body \in {"counted", "alreadyCounted"}) => credits[sid] >= 1

\* C2: a pull handler that resumes after another pull has already marked the
\* row paid does not increment again: it answers alreadyCounted and leaves
\* the ledger alone.
C2_LoserObservesPaid ==
  [][\A h \in BagToSet(verifying) :
       (VerifyResumes(h) /\ IsPaid(h.session_id))
         => (last'.body = "alreadyCounted" /\ LedgerUnchanged)]_vars

\* C4: a transaction is paid exactly when its votes are in the tally: in every
\* state each row has paid=1 iff it was credited, and every tally is the sum
\* of the credited votes.
C4_MarkAndCreditTogether ==
  /\ \A sid \in SessionIds : HasTrx(sid) => (IsPaid(sid) <=> credits[sid] >= 1)
  /\ \A c \in 1..Len(candidates) :
       candidates[c].tally = CreditedVotes(c, Len(transactions))

C4_Witness ==
  \E sid \in SessionIds :
    IsPaid(sid) /\ candidates[TrxOf(sid).candidate_id].tally >= TrxOf(sid).votes

\* C5: no step removes a transaction row or changes its key fields, and a
\* paid flag that is 1 stays 1 (it only ever goes from 0 to 1).
C5_RowsKeptPaidMonotone ==
  [][/\ Len(transactions') >= Len(transactions)
     /\ \A i \in 1..Len(transactions) :
          /\ transactions'[i].session_id = transactions[i].session_id
          /\ transactions'[i].paid >= transactions[i].paid
          /\ transactions'[i].paid \in {0, 1}]_vars

\* reached: a row marked paid a second time, still paid
C5_Witness ==
  \E sid \in SessionIds : IsPaid(sid) /\ credits[sid] >= 2

\* C6: a pull whose provider query answers "not paid" changes no candidate
\* and no transaction row, answers ok=false paid=false (200), and the row is
\* still there as it was for a later call.
C6_UnpaidPullChangesNothing ==
  [][\A h \in BagToSet(verifying) :
       (VerifyResumes(h) /\ ~ProviderPaid(h.session_id))
         => /\ LedgerUnchanged
            /\ last'.status = 200 /\ last'.body = "notPaid"
            /\ HasTrx(h.session_id)']_vars

C6_Witness ==
  \E sid \in SessionIds :
    /\ last.op = "verify-session" /\ last.body = "notPaid" /\ last.arg = sid
    /\ HasTrx(sid) /\ ~IsPaid(sid)


\* the same server when confirmation calls arrive one after another: no pull
\* or push starts while a pull is suspended
SeqNext ==
  \/ Restart /\ UNCHANGED client
  \/ \E c \in CandidateInputs, v \in VoteInputs, cur \in CurrencyInputs :
       CreateCheckoutSession(c, v, cur) /\ UNCHANGED client
  \/ \E h \in BagToSet(creating) : CreateCheckoutFails(h) /\ UNCHANGED client
  \/ \E h \in BagToSet(creating) : CreateCheckoutResumes(h) /\ UNCHANGED client
  \/ verifying = EmptyBag /\ \E sid \in {NoSession} \cup SessionIds : VerifySession(sid) /\ UNCHANGED client
  \/ \E h \in BagToSet(verifying) : VerifyFails(h) /\ UNCHANGED client
  \/ \E h \in BagToSet(verifying) : VerifyResumes(h) /\ UNCHANGED client
  \/ verifying = EmptyBag /\ \E sigOk \in BOOLEAN, type \in EventTypes, id \in SessionIds :
       Webhook(sigOk, type, id) /\ UNCHANGED client
  \/ \E sid \in SessionIds, ps \in {"paid", "unpaid"} : CustomerCompletes(sid, ps) /\ UNCHANGED client
  \/ \E sid \in SessionIds : AsyncPaymentSucceeds(sid) /\ UNCHANGED client

SeqSpec == Init /\ [][SeqNext]_vars

\* what one effective confirmation of sid does to the ledger, given how often
\* sid was credited before
ConfirmedOnce(sid) ==
  /\ credits'[sid] = 1
  /\ IsPaid(sid)'
  /\ candidates' = IF credits[sid] = 0
                     THEN IncTally(candidates, TrxOf(sid).votes, TrxOf(sid).candidate_id)
                     ELSE candidates

\* the pull half of C3, shared by the original and the amended statement
SequentialPulls(sid) ==
  /\ credits'[sid] <= 1
  /\ (VerifySession(sid) /\ credits[sid] >= 1)
       => (last'.status = 200 /\ last'.body = "alreadyCounted" /\ LedgerUnchanged)
  /\ \A h \in BagToSet(verifying) :
       (VerifyResumes(h) /\ h.session_id = sid /\ ProviderPaid(sid)) => ConfirmedOnce(sid)

\* C3 as stated: one after another, every pull and every push of the signed
\* completion event for a session the provider reports paid leaves the tally
\* exactly votes higher than before the first call, and a pull after the
\* first call answers alreadyCounted without changing a row.
C3_AnyConfirmationCounts ==
  [][\A sid \in SessionIds :
       /\ SequentialPulls(sid)
       /\ (Webhook(TRUE, "checkout.session.completed", sid)
             /\ HasTrx(sid) /\ ProviderPaid(sid)) => ConfirmedOnce(sid)]_vars

\* C3 amended: the same, for pushes to a server whose Stripe key and webhook
\* secret are configured.
C3_SequentialIdempotent ==
  [][\A sid \in SessionIds :
       /\ SequentialPulls(sid)
       /\ (Webhook(TRUE, "checkout.session.completed", sid)
             /\ stripe /\ webhookSecret
             /\ HasTrx(sid) /\ ProviderPaid(sid)) => ConfirmedOnce(sid)]_vars

\* reached: a repeated pull answered alreadyCounted with the votes counted once
C3_Witness ==
  \E sid \in SessionIds :
    /\ last.op = "verify-session" /\ last.body = "alreadyCounted" /\ last.arg = sid
    /\ credits[sid] = 1
    /\ candidates[TrxOf(sid).candidate_id].tally = TrxOf(sid).votes

\* C8: a checkout for an existing candidate with v >= 1 votes in a supported
\* currency c, accepted by the provider, appends exactly one row (that
\* candidate, votes v, currency c, amount_total = price per vote * v,
\* paid = 0) and changes nothing else in the ledger.
C8_CheckoutAddsOneRow ==
  [][/\ \A c \in 1..Len(candidates), v \in 1..MaxVotes, cur \in StripeCurrencies :
          (stripe /\ CreateCheckoutSession(Num(c), Num(v), Str(cur)))
            => /\ creating' = creating (+) SetToBag({[cand |-> c, votes |-> v,
                     currency |-> cur, amount |-> VOTE_PRICE_MINOR * v]})
               /\ LedgerUnchanged
     /\ \A h \in BagToSet(creating) :
          CreateCheckoutResumes(h)
            => /\ transactions' = Append(transactions,
                     [session_id |-> Len(sessions) + 1, candidate_id |-> h.cand,
                      votes |-> h.votes, currency |-> h.currency,
                      amount_total |-> VOTE_PRICE_MINOR * h.votes, paid |-> 0])
               /\ candidates' = candidates]_vars

\* C9: the transaction rows and the sessions the provider created correspond
\* one to one, by session id.
C9_RowsMatchSessions ==
  /\ \A sid \in 1..Len(sessions) :
       Cardinality({i \in 1..Len(transactions) : transactions[i].session_id = sid}) = 1
  /\ \A i \in 1..Len(transactions) : transactions[i].session_id \in 1..Len(sessions)

\* C10: when the provider fails to create the session the request answers 500
\* and neither table changes.
C10_ProviderFailureNoRow ==
  [][\A h \in BagToSet(creating) :
       CreateCheckoutFails(h)
         => /\ last'.op = "create-checkout-session" /\ last'.status = 500
            /\ LedgerUnchanged
            /\ sessions' = sessions]_vars

\* reached: a checkout answered 500 with no session at the provider
C10_Witness ==
  /\ last.op = "create-checkout-session" /\ last.status = 500
  /\ stripe /\ Len(sessions) = 0 /\ Len(transactions) = 0


(* ----------------------- checkout request validation ------------------ *)
\* the page and the checkout route on their own: no confirmation requests
\* checkout requests sent to the route directly and by the page: every
\* candidate with every vote count, and every currency
CheckoutNext ==
  \/ Restart /\ UNCHANGED client
  \/ \E c \in CandidateInputs, v \in VoteInputs :
       CreateCheckoutSession(c, v, Undefined) /\ UNCHANGED client
  \/ \E c \in CandidateInputs, cur \in CurrencyInputs :
       CreateCheckoutSession(c, Num(1), cur) /\ UNCHANGED client
  \/ \E choiceId \in ChoiceInputs, v \in VoteInputs :
       createCheckout(choiceId, v, Str("USD"))
  \/ \E choiceId \in ChoiceInputs, cur \in CurrencyInputs :
       createCheckout(choiceId, Num(1), cur)
  \/ \E data \in CheckoutAnswers : CheckoutAnswered(data)
  \/ CheckoutThrows
  \/ \E h \in BagToSet(creating) : CreateCheckoutFails(h) /\ UNCHANGED client
  \/ \E h \in BagToSet(creating) : CreateCheckoutResumes(h) /\ UNCHANGED client

CheckoutSpec == Init /\ [][CheckoutNext]_vars

\* the candidate id of the request is a number with no candidate row
Unresolved(c) ==
  /\ IsFinite(ToNumber(c))
  /\ ~(ToNumber(c).t = "number" /\ CandidateRow(candidates, ToNumber(c).n) # 0)

Resolves(c) ==
  ToNumber(c).t = "number" /\ CandidateRow(candidates, ToNumber(c).n) # 0

\* the request is refused on the spot: nothing is sent to the provider and
\* nothing is written
RefusedAtOnce ==
  /\ creating' = creating
  /\ sessions' = sessions
  /\ LedgerUnchanged

\* C11: a checkout request (Stripe configured, existing candidate) whose
\* currency is not a supported code is answered with an 'unsupported
\* currency' client error before anything is sent to the provider, and no
\* row is written.
C11_UnsupportedCurrencyRejected ==
  [][\A c \in CandidateInputs, v \in VoteInputs, cur \in CurrencyInputs :
       (stripe /\ Resolves(c) /\ CurrencyOf(cur) \notin currencies
          /\ CreateCheckoutSession(c, v, cur))
         => /\ last'.op = "create-checkout-session"
            /\ last'.status \in 400..499
            /\ last'.body = "unsupported currency"
            /\ RefusedAtOnce]_vars

\* C12 as stated: a checkout request whose candidate id is a number with no
\* candidate row is answered 404 'Candidate not found', sends nothing to the
\* provider and writes no row.
C12_UnknownCandidateNotFound ==
  [][\A c \in CandidateInputs, v \in VoteInputs, cur \in CurrencyInputs :
       (Unresolved(c) /\ CreateCheckoutSession(c, v, cur))
         => /\ last' = Response("create-checkout-session", 404, "Candidate not found", NoSession)
            /\ RefusedAtOnce]_vars

\* C12 amended: the same on a server whose Stripe key is configured (without
\* the key every checkout request is answered 400 before the lookup).
C12_UnknownCandidateNotFoundConfigured ==
  [][\A c \in CandidateInputs, v \in VoteInputs, cur \in CurrencyInputs :
       (Unresolved(c) /\ stripe /\ CreateCheckoutSession(c, v, cur))
         => /\ last' = Response("create-checkout-session", 404, "Candidate not found", NoSession)
            /\ RefusedAtOnce]_vars

\* reached: a checkout was answered 404 and nothing is suspended or stored
C12_Witness ==
  /\ last.op = "create-checkout-session" /\ last.status = 404
  /\ stripe /\ creating = EmptyBag /\ Len(transactions) = 0

\* the vote count the claim states for a request value: a positive integer
\* (number or numeric text) is kept, anything else becomes 1
StatedVotes(v) ==
  CASE v.t = "number" /\ v.n >= 1 -> v.n
    [] v = Str("2")               -> 2
    [] OTHER                      -> 1

\* the step hands the provider call a request with exactly k votes
SuspendsWithVotes(k) ==
  \E h \in BagToSet(creating') :
    /\ creating' = creating (+) SetToBag({h})
    /\ h.votes = k

\* C13 as stated: the server's handler and the page's normalizeVotes both
\* turn a vote count that is 0, negative or not a number into 1 and keep a
\* positive integer, and every stored row has votes >= 1.
C13_InvalidVotesBecomeOne ==
  [][/\ \A c \in CandidateInputs, cur \in CurrencyInputs :
          \A v \in {x \in VoteInputs : x.t # "fraction"} :
            (creating' # creating /\ CreateCheckoutSession(c, v, cur))
              => SuspendsWithVotes(StatedVotes(v))
     /\ \A ch \in ChoiceInputs, cur \in CurrencyInputs :
          \A v \in {x \in VoteInputs : x.t # "fraction"} :
            (creating' # creating /\ createCheckout(ch, v, cur))
              => SuspendsWithVotes(StatedVotes(v))
     /\ \A i \in 1..Len(transactions') : transactions'[i].votes >= 1]_vars

\* what the server makes of a request value: for text, the leading integer
ServerVotes(v) ==
  CASE v = Str("2x")    -> 2
    [] v.t = "fraction" -> IF v.n >= 1 THEN v.n ELSE 1
    [] OTHER            -> StatedVotes(v)

\* what the page makes of it: the whole text must be a number
PageVotes(v) ==
  IF v.t = "fraction" THEN (IF v.n >= 1 THEN v.n ELSE 1) ELSE StatedVotes(v)

\* C13 amended: the server turns a vote count that is 0, negative, missing
\* or text without a leading positive integer into 1 and reads text by its
\* leading integer ('2x' is 2); the page turns everything that is not a
\* number >= 1 into 1 ('2x' is 1); both drop the fraction of a number and
\* keep a positive integer; every stored row has votes >= 1.
C13_VotesNormalized ==
  [][/\ \A c \in CandidateInputs, v \in VoteInputs, cur \in CurrencyInputs :
          (creating' # creating /\ CreateCheckoutSession(c, v, cur))
            => SuspendsWithVotes(ServerVotes(v))
     /\ \A ch \in ChoiceInputs, v \in VoteInputs, cur \in CurrencyInputs :
          (creating' # creating /\ createCheckout(ch, v, cur))
            => SuspendsWithVotes(PageVotes(v))
     /\ \A i \in 1..Len(transactions') : transactions'[i].votes >= 1]_vars

\* reached: a request normalized to one vote is stored, next to none lower
C13_Witness ==
  /\ Len(transactions) >= 1
  /\ \E i \in 1..Len(transactions) :
       transactions[i].votes = 1 /\ transactions[i].amount_total = VOTE_PRICE_MINOR

(* ------------------------ reads and admin routes ---------------------- *)
\* GET /api/tally
GetTally ==
  /\ last' = [Response("tally", 200, "tally", NoSession)
                 EXCEPT !.data = SelectTally(candidates)]
  /\ UNCHANGED <<version, stripe, webhookSecret, adminToken, settings, candidates,
                 transactions, sessions, events, creating, verifying, credits>>

\* GET /api/settings
GetSettings ==
  /\ last' = Response("settings", 200, "settings", NoSession)
  /\ UNCHANGED <<version, stripe, webhookSecret, adminToken, settings, candidates,
                 transactions, sessions, events, creating, verifying, credits>>

\* the answer of the settings write, with the fields the request supplied
SettingsResponse(question, glow, status, body) ==
  [Response("admin-settings", status, body, NoSession) EXCEPT
     !.req = IF question # Undefined /\ glow # Undefined THEN "question,glow"
             ELSE IF question # Undefined THEN "question"
             ELSE IF glow # Undefined THEN "glow" ELSE ""]

\* AdminSettings that compares the header only, as the seed route does
AdminSettings_HeaderOnly(auth, question, glow) ==
  /\ version = "v2"
  /\ IF auth # Bearer(adminToken)
       THEN /\ last' = SettingsResponse(question, glow, 401, "Unauthorized")
            /\ UNCHANGED settings
       ELSE /\ settings' = UpdateSettings(settings, question, glow)
            /\ last' = SettingsResponse(question, glow, 200, "ok")
  /\ UNCHANGED <<version, stripe, webhookSecret, adminToken, candidates,
                 transactions, sessions, events, creating, verifying, credits>>

\* POST /api/admin/settings (a route of the later file)
AdminSettings(auth, question, glow) ==
  /\ version = "v2"
  /\ IF adminToken = "" \/ auth # Bearer(adminToken)
       THEN /\ last' = SettingsResponse(question, glow, 401, "Unauthorized")
            /\ UNCHANGED settings
       ELSE /\ settings' = UpdateSettings(settings, question, glow)
            /\ last' = SettingsResponse(question, glow, 200, "ok")
  /\ UNCHANGED <<version, stripe, webhookSecret, adminToken, candidates,
                 transactions, sessions, events, creating, verifying, credits>>

\* AdminSeed that writes the configured names over the table
AdminSeed_Reset(auth) ==
  /\ version = "v1"
  /\ IF auth # Bearer(adminToken)
       THEN /\ last' = Response("admin-seed", 401, "Unauthorized", NoSession)
            /\ UNCHANGED candidates
       ELSE /\ candidates' = [i \in 1..Len(Seeds) |-> [name |-> Seeds[i], tally |-> 0]]
            /\ last' = Response("admin-seed", 200, "ok", NoSession)
  /\ UNCHANGED <<version, stripe, webhookSecret, adminToken, settings,
                 transactions, sessions, events, creating, verifying, credits>>

\* POST /api/admin/seed (a route of the earlier file)
AdminSeed(auth) ==
  /\ version = "v1"
  /\ IF auth # Bearer(adminToken)
       THEN /\ last' = Response("admin-seed", 401, "Unauthorized", NoSession)
            /\ UNCHANGED candidates
       ELSE /\ candidates' = InsertOrIgnore(candidates, Seeds, 1)
            /\ last' = Response("admin-seed", 200, "ok", NoSession)
  /\ UNCHANGED <<version, stripe, webhookSecret, adminToken, settings,
                 transactions, sessions, events, creating, verifying, credits>>

\* the other server file is deployed on the same database file
Redeploy ==
  /\ version' \in Versions \ {version}
  /\ settings' = SeedSettings(settings)
  /\ candidates' = SeedIfEmpty(candidates)
  /\ creating' = EmptyBag
  /\ verifying' = EmptyBag
  /\ last' = Response("startup", 0, "listening", NoSession)
  /\ UNCHANGED <<stripe, webhookSecret, adminToken, transactions, sessions, events, credits>>

\* every route of the server, with one shape of checkout request; the first
\* start had CANDIDATES name no candidate (',' leaves the table empty), name
\* the last of the later names only, or left it unset
OpsInit ==
  Started(AdminTokens,
          {<< >>, << [name |-> Seeds[Len(Seeds)], tally |-> 0] >>, SeedIfEmpty(<< >>)},
          {Load(NoEnv, NoGlobals)})

OpsNext ==
  \/ Restart /\ UNCHANGED client
  \/ Redeploy /\ UNCHANGED client
  \/ GetTally /\ UNCHANGED client
  \/ GetSettings /\ UNCHANGED client
  \/ \E auth \in AuthInputs, q \in QuestionInputs, g \in GlowInputs : AdminSettings(auth, q, g) /\ UNCHANGED client
  \/ \E auth \in AuthInputs : AdminSeed(auth) /\ UNCHANGED client
  \/ \E c \in {Num(1), Num(Len(Seeds) + 1)} :
       CreateCheckoutSession(c, Num(MaxVotes), Undefined) /\ UNCHANGED client
  \/ \E h \in BagToSet(creating) : CreateCheckoutFails(h) /\ UNCHANGED client
  \/ \E h \in BagToSet(creating) : CreateCheckoutResumes(h) /\ UNCHANGED client
  \/ \E sid \in SessionIds : VerifySession(sid) /\ UNCHANGED client
  \/ \E h \in BagToSet(verifying) : VerifyFails(h) /\ UNCHANGED client
  \/ \E h \in BagToSet(verifying) : VerifyResumes(h) /\ UNCHANGED client
  \/ \E sigOk \in BOOLEAN, id \in SessionIds :
       Webhook(sigOk, "checkout.session.completed", id) /\ UNCHANGED client
  \/ \E sid \in SessionIds, ps \in {"paid", "unpaid"} : CustomerCompletes(sid, ps) /\ UNCHANGED client
  \/ \E sid \in SessionIds : AsyncPaymentSucceeds(sid) /\ UNCHANGED client

OpsSpec == OpsInit /\ [][OpsNext]_vars

TalliesUnchanged ==
  \A c \in 1..Len(candidates) :
    c \in 1..Len(candidates') /\ candidates'[c].tally = candidates[c].tally

\* C19: every tally is a non-negative integer and no step lowers one or
\* removes a candidate; a step that changes a tally is the resumed pull or the
\* webhook; checkout creation, the tally and settings reads, the settings
\* write, seeding (at startup and by the admin route) change no tally.
C19_TallyMonotone ==
  [][/\ \A c \in 1..Len(candidates') : candidates'[c].tally \in Nat
     /\ \A c \in 1..Len(candidates) :
          c \in 1..Len(candidates') /\ candidates'[c].tally >= candidates[c].tally
     /\ ~TalliesUnchanged
          => \/ \E h \in BagToSet(verifying) : VerifyResumes(h)
             \/ \E id \in SessionIds : Webhook(TRUE, "checkout.session.completed", id)
     /\ (\/ Restart \/ Redeploy \/ GetTally \/ GetSettings
         \/ \E auth \in AuthInputs : AdminSeed(auth)
         \/ \E auth \in AuthInputs, q \in QuestionInputs, g \in GlowInputs :
              AdminSettings(auth, q, g)
         \/ \E c \in CandidateInputs, v \in VoteInputs, cur \in CurrencyInputs :
              CreateCheckoutSession(c, v, cur)
         \/ \E h \in BagToSet(creating) : CreateCheckoutFails(h) \/ CreateCheckoutResumes(h))
          => TalliesUnchanged]_vars

\* reached: the admin route has seeded again on a database whose tally is
\* above 0, and the tally is still there
C19_Witness ==
  /\ last.op = "admin-seed" /\ last.status = 200
  /\ \E c \in 1..Len(candidates) : candidates[c].tally > 0

(* ------------------------------ tally read --------------------------- *)
\* C21: the tally read answers with every candidate's id, name and tally in
\* ascending id order, and with no row when the table is empty; it changes
\* nothing the server keeps; read again with no handler completing in
\* between, it answers with the same rows.
C21_TallyReadsAllInOrder ==
  [][GetTally
       => /\ last'.status = 200
          /\ Len(last'.data) = Len(candidates)
          /\ \A c \in 1..Len(candidates) :
               \E i \in 1..Len(last'.data) :
                 last'.data[i] = [id |-> c, name |-> candidates[c].name,
                                  tally |-> candidates[c].tally]
          /\ \A i, j \in 1..Len(last'.data) :
               i < j => last'.data[i].id < last'.data[j].id
          /\ Len(candidates) = 0 => last'.data = << >>
          /\ UNCHANGED <<settings, candidates, transactions, sessions, events,
                         creating, verifying, credits>>
          /\ last.op = "tally" => last'.data = last.data]_vars

\* reached: the tally read has answered with all the rows, one of them with
\* votes counted
C21_Witness ==
  /\ last.op = "tally" /\ Len(last.data) = Len(Seeds)
  /\ \E i \in 1..Len(last.data) : last.data[i].tally > 0

(* ----------------------------- settings write ------------------------ *)
\* the request carries the credential the server holds
Authorized(auth) == adminToken # "" /\ auth = Bearer(adminToken)

\* C22: a settings write whose credential is missing or differs from the
\* server's secret is answered 401 and leaves the settings row as it was; a
\* server with no secret configured answers every settings write so.
C22_UnauthorizedSettingsWriteRejected ==
  [][\A auth \in AuthInputs, q \in QuestionInputs, g \in GlowInputs :
       (~Authorized(auth) /\ AdminSettings(auth, q, g))
         => /\ last'.status = 401 /\ last'.body = "Unauthorized"
            /\ settings' = settings
            /\ LedgerUnchanged]_vars

\* reached: a settings write was rejected on a server whose settings an
\* earlier, authorized write had changed, and the change is still there
C22_Witness ==
  /\ last.op = "admin-settings" /\ last.status = 401
  /\ settings # SeedSettings(<< >>)

\* C23: an authorized settings write stores the question and the glow it
\* supplies and keeps the stored value of a field it does not supply; no
\* settings write, authorized or not, changes a candidate or a transaction.
C23_SettingsWriteOnlySupplied ==
  [][\A auth \in AuthInputs, q \in QuestionInputs, g \in GlowInputs :
       (version = "v2" /\ AdminSettings(auth, q, g))
         => /\ LedgerUnchanged
            /\ Authorized(auth)
                 => /\ last'.status = 200
                    /\ Len(settings') = 1
                    /\ settings'[1].question =
                         IF q = Undefined THEN settings[1].question ELSE q.s
                    /\ settings'[1].glow =
                         IF g = Undefined THEN settings[1].glow ELSE g.s]_vars

\* reached: a write that supplied only the question was accepted on a row
\* whose glow an earlier write had changed: the new question is stored next
\* to the changed glow
C23_Witness ==
  /\ last.op = "admin-settings" /\ last.status = 200 /\ last.req = "question"
  /\ settings[1].question = "Is it NO?"
  /\ settings[1].glow = "#ff00ff"

(* -------------------------------- startup ----------------------------- *)
\* C24: the startup sequence, run on a database that holds candidates, adds
\* no candidate and resets no tally, changes no transaction and keeps the
\* stored settings; it inserts candidates only into an empty table.
C24_StartupKeepsStore ==
  [][(Restart \/ Redeploy)
       => /\ transactions' = transactions
          /\ settings' = settings
          /\ Len(candidates) > 0 => candidates' = candidates
          /\ candidates' # candidates
               => /\ Len(candidates) = 0
                  /\ candidates' = [i \in 1..Len(Seeds) |-> [name |-> Seeds[i], tally |-> 0]]]_vars

\* reached: the server has started again on a database with changed
\* settings, a paid transaction and counted votes, and all are still there
C24_Witness ==
  /\ last.op = "startup"
  /\ settings # SeedSettings(<< >>)
  /\ \E i \in 1..Len(transactions) : transactions[i].paid = 1
  /\ \E c \in 1..Len(candidates) : candidates[c].tally > 0

(* -------------------------- ledger conservation ----------------------- *)
RECURSIVE PaidVotes(_, _)
\* the votes of the paid rows for candidate c among the first n transactions
PaidVotes(c, n) ==
  IF n = 0 THEN 0
  ELSE PaidVotes(c, n - 1) +
       (IF transactions[n].candidate_id = c /\ transactions[n].paid = 1
          THEN transactions[n].votes ELSE 0)

\* C25: in every reachable state each candidate's tally is the sum of the
\* votes of the paid transactions that name the candidate.
C25_LedgerConservation ==
  \A c \in 1..Len(candidates) : candidates[c].tally = PaidVotes(c, Len(transactions))

\* C26: a step that marks a transaction paid, on the pull or the push path,
\* is taken only while the provider reports the session's payment status
\* as 'paid'.
C26_PaidOnlyWhenProviderPaid ==
  [][\A sid \in SessionIds :
       (HasTrx(sid) /\ ~IsPaid(sid) /\ IsPaid(sid)') => ProviderPaid(sid)]_vars

(* ------------------------------- admin seed -------------------------- *)
\* C27: the admin seed answers 401 and changes nothing when the header is
\* not 'Bearer <ADMIN_TOKEN>'; otherwise it adds the configured names that
\* the table lacks, each once and with tally 0, keeps the id, name and tally
\* of every candidate there was, and changes nothing when it is applied
\* again.
C27_AdminSeedAddsMissingOnly ==
  [][\A auth \in AuthInputs :
       (version = "v1" /\ AdminSeed(auth))
         => IF auth # Bearer(adminToken)
              THEN /\ last'.status = 401
                   /\ LedgerUnchanged /\ settings' = settings
              ELSE /\ last'.status = 200
                   /\ transactions' = transactions /\ settings' = settings
                   /\ Len(candidates') >= Len(candidates)
                   /\ \A c \in 1..Len(candidates) : candidates'[c] = candidates[c]
                   /\ \A c \in (Len(candidates) + 1)..Len(candidates') :
                        /\ candidates'[c].tally = 0
                        /\ \E k \in 1..Len(Seeds) : candidates'[c].name = Seeds[k]
                        /\ \A d \in 1..Len(candidates') :
                             candidates'[d].name = candidates'[c].name => d = c
                   /\ \A k \in 1..Len(Seeds) :
                        \E c \in 1..Len(candidates') : candidates'[c].name = Seeds[k]
                   /\ (last.op = "admin-seed" /\ last.status = 200)
                        => candidates' = candidates]_vars

\* reached: the admin seed has added the name the table lacked after the
\* candidate it had, whose votes are still there
C27_Witness ==
  /\ last.op = "admin-seed" /\ last.status = 200
  /\ Len(candidates) = Len(Seeds)
  /\ candidates[1].name = Seeds[Len(Seeds)] /\ candidates[1].tally > 0
  /\ candidates[Len(Seeds)].name = Seeds[1] /\ candidates[Len(Seeds)].tally = 0

(* ------------------------- the page's checkout ------------------------ *)
\* the currency is one of the page's list, in any letter case
Supported(cur) == cur.t = "string" /\ ToUpperCase(cur.s) \in currencies

\* C28: createCheckout sends the checkout request, and sets the creating
\* flag, only with a choice selected and a supported currency; otherwise it
\* shows an error message, leaves the creating flag unset, sends nothing and
\* the server sees nothing.
C28_SendsOnlyValidRequests ==
  [][/\ \A ch \in ChoiceInputs, v \in VoteInputs, cur \in CurrencyInputs :
          createCheckout(ch, v, cur)
            => IF ch # 0 /\ Supported(cur)
                 THEN /\ request'.sent /\ request'.candidateId = ch
                      /\ page'.creating
                 ELSE /\ ~request'.sent
                      /\ ~page'.creating
                      /\ page'.message \in {"Pick YES or NO.", "Unsupported currency."}
                      /\ UNCHANGED server
     /\ (request'.sent /\ ~request.sent)
          => \E ch \in ChoiceInputs \ {0}, v \in VoteInputs, cur \in CurrencyInputs :
               Supported(cur) /\ createCheckout(ch, v, cur)]_vars

\* reached: createCheckout was called with a choice and a currency that is
\* not listed: the page shows the error and no request is in flight
C28_Witness ==
  /\ page.message = "Unsupported currency."
  /\ ~page.creating /\ ~request.sent

\* the page's checkout request settles: the fetch resolves with a body or
\* rejects, and the rest of createCheckout runs
CheckoutSettles ==
  \/ \E data \in CheckoutAnswers : CheckoutAnswered(data)
  \/ CheckoutThrows

\* a request that is in flight does not stay so for ever
CheckoutLiveSpec == Init /\ [][CheckoutNext]_vars /\ WF_vars(CheckoutSettles)

\* C29: the creating flag is set only while the page's checkout request is
\* in flight, and once set it is cleared again, whatever the request ends
\* with: a body with a url, a body with an error, or a failure.
C29_CreatingWhileInFlight ==
  /\ [](page.creating => request.sent)
  /\ [][(request.sent /\ CheckoutSettles) => ~page'.creating]_vars
  /\ (page.creating ~> ~page.creating)

\* reached: the request failed, the page shows the connection error and the
\* creating flag is cleared
C29_Witness ==
  /\ page.message = "Error connecting to payment server."
  /\ ~page.creating /\ ~request.sent

(* ------------------------ the page's polling effect ------------------ *)
\* the page's effect runs, is cleaned up and runs again, with the answers
\* to its fetches arriving at any time
PollNext ==
  \/ \E e \in Effects : EffectRuns(e)
  \/ \E e \in Effects : EffectCleanup(e)
  \/ \E e \in Effects, a \in SettingsAnswers : InitSettingsArrives(e, a)
  \/ \E e \in Effects, t \in TallyAnswers : InitTallyArrives(e, t)
  \/ \E e \in Effects : InitFails(e)
  \/ \E e \in Effects : IntervalFires(e)
  \/ \E e \in Effects, t \in TallyAnswers : PollArrives(e, t)
  \/ \E e \in Effects : PollFails(e)

PollSpec == Init /\ [][PollNext]_vars

\* the state the settings and tally answers are shown from
Shown == <<page.question, page.glow, page.instagram, page.tally, page.loading>>

\* C30: once a run of the polling effect is cleaned up, no step of that run
\* (an answer or a failure of its settings fetch, its tally fetch or one of
\* its polls) changes question, glow, instagram, tally or loading, its
\* interval stays cleared and it starts no poll.
C30_CleanedUpRunUpdatesNothing ==
  [][\A e \in Effects :
       effects[e].cancelled
         => /\ effects'[e] # effects[e] => Shown' = Shown
            /\ effects'[e].cancelled /\ ~effects'[e].iv
            /\ effects'[e].polls <= effects[e].polls]_vars

\* reached: the first run was cleaned up while its settings fetch was
\* pending; the answer has come since, init() has returned and the page
\* still shows what it showed, "Loading" included
C30_Witness ==
  /\ effects[1].cancelled /\ effects[1].init = "done" /\ effects[1].polls = 0
  /\ effects[2].init = "idle"
  /\ page = PageInit

(* ------------------------- the page's backend URL --------------------- *)
\* the page is loaded in any browser and build: the script runs, App renders
ResolveInit ==
  Started({""}, {SeedIfEmpty(<< >>)},
          {Load(env, globals) : env \in EnvInputs, globals \in GlobalsInputs})

ResolveNext ==
  \/ ModuleLoads
  \/ App

ResolveSpec == ResolveInit /\ [][ResolveNext]_vars

\* the input is set: it is there and holds a text that is not empty
IsSet(present, x) == present /\ x.t = "string" /\ x.s # ""

\* C31: whatever is set (to a text that is not empty) and unset among
\* env.VITE_BACKEND_URL, globals.VITE_BACKEND_URL and globals.__BACKEND_URL,
\* App resolves the URL of the first of them that is set, with the source
\* 'vite-env', 'global' or 'window' that names it, and
\* 'http://localhost:8787' with source 'default' when none is set.
C31_FirstSetSourceWins ==
  [][App =>
       LET e == IsSet(backend.env.present, backend.env.VITE_BACKEND_URL)
           g == IsSet(backend.globals.present, backend.globals.VITE_BACKEND_URL)
           w == IsSet(backend.globals.present, backend.globals.BACKEND_URL)
       IN  /\ e => backend'.source = "vite-env"
                    /\ backend'.url = backend.env.VITE_BACKEND_URL.s
           /\ (~e /\ g) => backend'.source = "global"
                            /\ backend'.url = backend.globals.VITE_BACKEND_URL.s
           /\ (~e /\ ~g /\ w) => backend'.source = "window"
                                  /\ backend'.url = backend.globals.BACKEND_URL.s
           /\ (~e /\ ~g /\ ~w) => backend'.source = "default"
                                   /\ backend'.url = "http://localhost:8787"]_vars

\* reached: with the build environment's URL and both globals set, App has
\* resolved the build environment's
C31_Witness ==
  /\ backend.pc = "rendered"
  /\ backend.source = "vite-env" /\ backend.url = "https://env"
  /\ Truthy(backend.globals.VITE_BACKEND_URL)
  /\ backend.globals.BACKEND_URL = Str("https://window")

(* ------------------- confirmation: refusals and errors ---------------- *)
CompletedEvent(sid) == [type |-> "checkout.session.completed", id |-> sid]

\* C14 as stated: in every configuration a webhook request whose signature
\* does not verify is answered with a client error and changes no
\* transaction row and no tally.
C14_BadSignatureRejected ==
  [][\A type \in EventTypes, id \in SessionIds :
       Webhook(FALSE, type, id)
         => /\ last'.status \in 400..499
            /\ LedgerUnchanged /\ credits' = credits]_vars

\* C14 amended: such a request changes no row and no tally in every
\* configuration; it is answered with a client error on a server whose
\* Stripe key and webhook secret are set, and with 200 'webhook not
\* configured' on any other.
C14_BadSignatureNotProcessed ==
  [][\A type \in EventTypes, id \in SessionIds :
       Webhook(FALSE, type, id)
         => /\ IF stripe /\ webhookSecret
                 THEN last'.status = 400
                 ELSE last'.status = 200 /\ last'.body = "webhook not configured"
            /\ LedgerUnchanged /\ credits' = credits]_vars

\* reached: a forged copy of the completion event of a pending transaction
\* was answered 400 and the transaction is still pending
C14_Witness ==
  /\ last.op = "webhook" /\ last.req = "forged" /\ last.status = 400
  /\ last.arg \in SessionIds
  /\ CompletedEvent(last.arg) \in events
  /\ HasTrx(last.arg) /\ ~IsPaid(last.arg) /\ credits[last.arg] = 0

\* C15: from the same ledger and provider state of a session, a completed
\* pull and a completed push of the session's 'payment completed' event leave
\* the same ledger, whether the session is unknown, already paid or pending
\* (on a server whose Stripe key and webhook secret are configured).
C15_PullPushSameLedger ==
  [][\A sid \in SessionIds :
       LET push == WebhookLedger("checkout.session.completed", sid)
       IN  /\ (stripe /\ webhookSecret /\ (~HasTrx(sid) \/ IsPaid(sid))
                 /\ VerifySession(sid))
               => (transactions' = push.transactions /\ candidates' = push.candidates)
           /\ \A h \in BagToSet(verifying) :
                (stripe /\ webhookSecret /\ h.session_id = sid
                   /\ h.trx = TrxOf(sid) /\ CompletedEvent(sid) \in events
                   /\ VerifyResumes(h))
                  => (transactions' = push.transactions /\ candidates' = push.candidates)]_vars

\* C16: when the provider query of a pull throws, the caller gets 500, the
\* atomic step is not entered: no row and no tally changes, a pending
\* transaction stays pending.
C16_ProviderErrorNoChange ==
  [][\A h \in BagToSet(verifying) :
       VerifyFails(h)
         => /\ last' = Response("verify-session", 500, "Verification failed", h.session_id)
            /\ LedgerUnchanged /\ credits' = credits
            /\ ~IsPaid(h.session_id) => ~IsPaid(h.session_id)']_vars

\* reached: the query failed for a session that is paid at the provider, and
\* its transaction is still pending
C16_Witness ==
  /\ last.op = "verify-session" /\ last.status = 500
  /\ last.arg \in SessionIds
  /\ ProviderPaid(last.arg)
  /\ HasTrx(last.arg) /\ ~IsPaid(last.arg) /\ credits[last.arg] = 0

\* C17 as stated: a pull for a session id without a transaction row is
\* answered 404 'Unknown session', suspends on no provider query and changes
\* no row.
C17_UnknownSessionNotFound ==
  [][\A sid \in SessionIds :
       (~HasTrx(sid) /\ VerifySession(sid))
         => /\ last' = Response("verify-session", 404, "Unknown session", sid)
            /\ verifying' = verifying
            /\ LedgerUnchanged]_vars

\* C17 amended: the same on a server whose Stripe key is configured, and on
\* the later server file in every configuration (the earlier file without
\* the key answers 400 'Stripe not configured' before the lookup).
C17_UnknownSessionNotFoundConfigured ==
  [][\A sid \in SessionIds :
       (~HasTrx(sid) /\ (stripe \/ version = "v2") /\ VerifySession(sid))
         => /\ last' = Response("verify-session", 404, "Unknown session", sid)
            /\ verifying' = verifying
            /\ LedgerUnchanged]_vars

\* reached: a pull was answered 404 for a session id that has no row
C17_Witness ==
  /\ last.op = "verify-session" /\ last.status = 404 /\ last.body = "Unknown session"
  /\ last.arg \in SessionIds /\ ~HasTrx(last.arg)
  /\ verifying = EmptyBag

\* C18: a correctly signed webhook whose event is not the completed-checkout
\* event is answered 200 and changes no row and no tally.
C18_OtherEventsIgnored ==
  [][\A type \in EventTypes \ {"checkout.session.completed"}, id \in SessionIds :
       Webhook(TRUE, type, id)
         => /\ last'.status = 200
            /\ LedgerUnchanged /\ credits' = credits]_vars

\* reached: a configured server answered 200 to a signed event of another
\* type about a pending transaction, which is still pending
C18_Witness ==
  /\ last.op = "webhook" /\ last.req = "checkout.session.async_payment_succeeded"
  /\ last.status = 200 /\ last.body = "received"
  /\ stripe /\ webhookSecret
  /\ last.arg \in SessionIds
  /\ HasTrx(last.arg) /\ ~IsPaid(last.arg)

(* ------------------------------ liveness ------------------------------ *)
\* a suspended pull for sid gets its answer from the provider
VerifyAnswered(sid) ==
  \E h \in BagToSet(verifying) :
    h.session_id = sid /\ VerifyResumes(h) /\ UNCHANGED client

\* the provider query does not fail for ever: a pull that keeps being
\* suspended on it is eventually answered
LiveSpec ==
  Init /\ [][Next]_vars /\ \A sid \in SessionIds : SF_vars(VerifyAnswered(sid))

\* the client keeps retrying verification
PullRetried == \A sid \in SessionIds : WF_vars(VerifySession(sid) /\ UNCHANGED client)

\* the provider delivers the completion webhook
PushDelivered ==
  \A sid \in SessionIds :
    WF_vars(Webhook(TRUE, "checkout.session.completed", sid) /\ UNCHANGED client)

Counted(sid) ==
  IsPaid(sid) /\ candidates[TrxOf(sid).candidate_id].tally >= TrxOf(sid).votes

\* C7 as stated: with the client retrying, or with the webhook delivered, a
\* pending transaction whose session is paid at the provider is eventually
\* paid=1 with its votes in the tally.
C7_EitherTriggerCounts ==
  (PullRetried \/ PushDelivered) =>
    \A sid \in SessionIds : (HasTrx(sid) /\ ProviderPaid(sid)) ~> Counted(sid)

\* C7 amended: the same with the client retrying; with the webhook delivered,
\* on a server whose Stripe key and webhook secret are configured.
C7_EventuallyCounted ==
  /\ PullRetried =>
       \A sid \in SessionIds : (HasTrx(sid) /\ ProviderPaid(sid)) ~> Counted(sid)
  /\ PushDelivered =>
       \A sid \in SessionIds :
         (HasTrx(sid) /\ ProviderPaid(sid) /\ stripe /\ webhookSecret) ~> Counted(sid)

\* reached: a pull has counted a session that is paid at the provider
C7_Witness ==
  \E sid \in SessionIds :
    /\ ProviderPaid(sid) /\ Counted(sid)
    /\ last.op = "verify-session" /\ last.body = "counted" /\ last.arg = sid

====
